---- MODULE Spec2Model ----
(***************************************************************************)
(* A model of the MIPS simulator core of src/src/App.jsx: the sparse       *)
(* memory helpers, the assembler, the one-instruction interpreter (step)   *)
(* and the timer-driven run loop of the useMipsSimulator hook.             *)
(*                                                                         *)
(* Numbers.  A JavaScript Number that the code keeps unwrapped (an         *)
(* address, the program counter, an exact sum before it is stored in the   *)
(* Int32Array) is a record [nan, hi, lo] standing for hi * 65536 + lo with *)
(* lo in 0..65535, so that no intermediate value leaves the range of the   *)
(* model checker's integers.  A register value (an Int32Array element) is  *)
(* a plain integer in -2^31 .. 2^31 - 1.                                   *)
(*                                                                         *)
(* Text.  A source line is a record [label, toks, str]: the label before   *)
(* the first ':' (<<>> if none), the whitespace separated tokens of the    *)
(* remainder after the comment is removed, and the characters between the  *)
(* quotes of a string directive as a sequence of character codes.  A       *)
(* token is a sequence of lexemes: a plain token such as $t0 or 42 is a    *)
(* one-lexeme sequence, a memory operand 4($t1) is <<"4","(","$t1",")">>.  *)
(***************************************************************************)
EXTENDS Integers, Sequences, FiniteSets, TLC

(***************************************************************************)
(* Architecture constants                                                  *)
(***************************************************************************)
REGISTERS ==
  << "$zero", "$at", "$v0", "$v1", "$a0", "$a1", "$a2", "$a3",
     "$t0", "$t1", "$t2", "$t3", "$t4", "$t5", "$t6", "$t7",
     "$s0", "$s1", "$s2", "$s3", "$s4", "$s5", "$s6", "$s7",
     "$t8", "$t9", "$k0", "$k1", "$gp", "$sp", "$fp", "$ra" >>

\* the PC the exit syscall leaves (nextPc = 0)
ExitPc == 0
DATA_START == 268500992
STACK_START == 2147483644
TEXT_START == 4194304
LoopGuardCap == 1000

RegIdx == 0..31
MinInt32 == (-2147483647) - 1
MaxInt32 == 2147483647

(***************************************************************************)
(* JavaScript numbers                                                      *)
(***************************************************************************)
NaN == [nan |-> TRUE, hi |-> 0, lo |-> 0]
Num(n) == [nan |-> FALSE, hi |-> n \div 65536, lo |-> n % 65536]
MkNum(h, l) == [nan |-> FALSE, hi |-> h + (l \div 65536), lo |-> l % 65536]

\* a + b on Numbers (exact; NaN is contagious)
NumAdd(a, b) ==
  IF a.nan \/ b.nan THEN NaN ELSE MkNum(a.hi + b.hi, a.lo + b.lo)

\* a - b on Numbers
NumSub(a, b) ==
  IF a.nan \/ b.nan THEN NaN ELSE MkNum(a.hi - b.hi, a.lo - b.lo)

\* a < b on Numbers (false when either is NaN)
NumLess(a, b) ==
  /\ ~a.nan
  /\ ~b.nan
  /\ \/ a.hi < b.hi
     \/ a.hi = b.hi /\ a.lo < b.lo

\* ToInt32 with saturation instead of wraparound (an overflow-trapping ALU)
ToInt32Saturating(x) ==
  IF x.nan THEN 0
  ELSE IF x.hi > 32767 THEN MaxInt32
  ELSE IF x.hi < -32768 THEN MinInt32
  ELSE x.hi * 65536 + x.lo

\* ToInt32: what storing a Number into an Int32Array element keeps
ToInt32(x) ==
  IF x.nan THEN 0
  ELSE (((x.hi + 32768) % 65536) - 32768) * 65536 + x.lo

\* unsigned 16-bit halves of an int32
Hi16(n) == (n \div 65536) % 65536
Lo16(n) == n % 65536
FromHalves(h, l) == ((((h % 65536) + 32768) % 65536) - 32768) * 65536 + (l % 65536)

\* bit i of a natural number, and a sum over the 16 bit positions
Bit(a, i) == (a \div (2 ^ i)) % 2
Sum16(F(_)) ==
  F(0) + F(1) + F(2) + F(3) + F(4) + F(5) + F(6) + F(7)
  + F(8) + F(9) + F(10) + F(11) + F(12) + F(13) + F(14) + F(15)

And16(a, b) ==
  LET F(i) == Bit(a, i) * Bit(b, i) * (2 ^ i) IN Sum16(F)
Or16(a, b) ==
  LET F(i) == (IF Bit(a, i) = 1 \/ Bit(b, i) = 1 THEN 1 ELSE 0) * (2 ^ i) IN Sum16(F)
Xor16(a, b) ==
  LET F(i) == ((Bit(a, i) + Bit(b, i)) % 2) * (2 ^ i) IN Sum16(F)

\* the JavaScript operators &, |, ^ on int32 operands
And32(a, b) == FromHalves(And16(Hi16(a), Hi16(b)), And16(Lo16(a), Lo16(b)))
Or32(a, b) == FromHalves(Or16(Hi16(a), Hi16(b)), Or16(Lo16(a), Lo16(b)))
Xor32(a, b) == FromHalves(Xor16(Hi16(a), Hi16(b)), Xor16(Lo16(a), Lo16(b)))

\* x >> s : arithmetic shift of an int32; the shift count is taken modulo 32
Sar32(x, s) ==
  IF s % 32 = 31 THEN (IF x < 0 THEN -1 ELSE 0) ELSE x \div (2 ^ (s % 32))

\* x >>> s : zero-fill shift of ToUint32(x); the result, stored into the
\* Int32Array, is wrapped back to an int32
Shr32(x, s) ==
  LET n == s % 32
      h == Hi16(x)
      l == Lo16(x)
  IN  IF n = 0 THEN x
      ELSE IF n >= 16 THEN h \div (2 ^ (n - 16))
      ELSE (h \div (2 ^ n)) * 65536 + (h % (2 ^ n)) * (2 ^ (16 - n)) + (l \div (2 ^ n))

\* Math.imul: the low 32 bits of the product
Mul16(a, b) ==
  \* the product of two 16-bit naturals as <<high 16 bits, low 16 bits>>
  LET p1 == a * (b % 256)
      p2 == a * (b \div 256)
      low == (p2 % 256) * 256 + p1
  IN  << (p2 \div 256) + (low \div 65536), low % 65536 >>
Imul(a, b) ==
  LET ll == Mul16(Lo16(a), Lo16(b))
      lh == Mul16(Lo16(a), Hi16(b))
      hl == Mul16(Hi16(a), Lo16(b))
  IN  FromHalves(ll[1] + lh[2] + hl[2], ll[2])

\* x << s : the low 32 bits of x * 2^s; the shift count is taken modulo 32
Shl32(x, s) == Imul(x, IF s % 32 = 31 THEN MinInt32 ELSE 2 ^ (s % 32))

(***************************************************************************)
(* Sparse memory: a function from the addresses written so far (the keys   *)
(* of the JavaScript object) to the stored values                          *)
(***************************************************************************)
EmptyMem == <<>>

\* nextMem[addr] = v
MemPut(mem, addr, v) == (addr :> v) @@ mem

\* currentMem[addr] || 0
getMemByte(addr, currentMem) ==
  IF addr \in DOMAIN currentMem THEN currentMem[addr] ELSE 0

getMemWord(addr, currentMem) ==
  Or32(Or32(Or32(Shl32(getMemByte(addr, currentMem), 24),
                 Shl32(getMemByte(NumAdd(addr, Num(1)), currentMem), 16)),
            Shl32(getMemByte(NumAdd(addr, Num(2)), currentMem), 8)),
       getMemByte(NumAdd(addr, Num(3)), currentMem))

setMemByte(addr, val, currentMem) == MemPut(currentMem, addr, And32(val, 255))

\* a word store that lays the bytes out least significant first
setMemWordLittleEndian(addr, val, currentMem) ==
  MemPut(MemPut(MemPut(MemPut(currentMem,
      addr, And32(val, 255)),
      NumAdd(addr, Num(1)), And32(Sar32(val, 8), 255)),
      NumAdd(addr, Num(2)), And32(Sar32(val, 16), 255)),
      NumAdd(addr, Num(3)), And32(Sar32(val, 24), 255))

setMemWord(addr, val, currentMem) ==
  MemPut(MemPut(MemPut(MemPut(currentMem,
      addr, And32(Sar32(val, 24), 255)),
      NumAdd(addr, Num(1)), And32(Sar32(val, 16), 255)),
      NumAdd(addr, Num(2)), And32(Sar32(val, 8), 255)),
      NumAdd(addr, Num(3)), And32(val, 255))

(***************************************************************************)
(* Tokens and operand decoding                                             *)
(***************************************************************************)
\* args[k] of a JavaScript array: undefined (here <<>>) past the end
Undefined == <<>>
Arg(args, k) == IF k + 1 <= Len(args) THEN args[k + 1] ELSE Undefined

\* the value of parseInt on the lexemes the modelled sources use: the
\* longest numeric prefix, base 16 after 0x, NaN when there is none
IntLits ==
  [s \in {"0", "1", "2", "3", "4", "5", "8", "10", "11", "65", "321", "-1",
          "-2", "-4", "-8", "2147483647", "-2147483648", "4194304", "4194312",
          "4194306", "0x10", "7up"} |->
     CASE s = "0" -> 0 [] s = "1" -> 1 [] s = "2" -> 2 [] s = "3" -> 3
       [] s = "4" -> 4 [] s = "5" -> 5 [] s = "8" -> 8 [] s = "10" -> 10
       [] s = "11" -> 11 [] s = "65" -> 65 [] s = "321" -> 321
       [] s = "-1" -> -1 [] s = "-2" -> -2 [] s = "-4" -> -4 [] s = "-8" -> -8
       [] s = "2147483647" -> MaxInt32 [] s = "-2147483648" -> MinInt32
       [] s = "4194304" -> 4194304 [] s = "4194312" -> 4194312
       [] s = "4194306" -> 4194306
       [] s = "0x10" -> 16 [] s = "7up" -> 7]

\* the lexemes the pattern -?\d+ matches whole
DecimalLits == DOMAIN IntLits \ {"0x10", "7up"}

parseInt(str) ==
  IF str = Undefined THEN NaN
  ELSE IF str[1] \in DOMAIN IntLits THEN Num(IntLits[str[1]])
  ELSE NaN

\* REG_MAP[name]: the register index, or -1 for undefined
RegMapGet(name) ==
  IF \E i \in 1..32 : REGISTERS[i] = name
  THEN (CHOOSE i \in 1..32 : REGISTERS[i] = name) - 1
  ELSE -1

\* the lexemes the pattern \$[a-z0-9]+ matches whole
DollarNames == {REGISTERS[i] : i \in 1..32} \cup {"$bogus", "$t99"}

\* where the pattern (-?\d+)\((\$[a-z0-9]+)\) matches in a token
MemOperandAt(str) ==
  {i \in 1..Len(str) :
     /\ i + 3 <= Len(str)
     /\ str[i] \in DecimalLits
     /\ str[i + 1] = "("
     /\ str[i + 2] \in DollarNames
     /\ str[i + 3] = ")"}

\* parseReg: 0 for a missing operand, {offset, reg} for a memory operand,
\* else REG_MAP[str].  kind "num": a register index idx; kind "obj": the
\* object with offset and reg (-1 for undefined); kind "undef": undefined
parseReg(str) ==
  IF str = Undefined
  THEN [kind |-> "num", idx |-> 0, offset |-> NaN, reg |-> -1]
  ELSE IF (\E i \in 1..Len(str) : str[i] = "(") /\ MemOperandAt(str) # {}
  THEN LET i == CHOOSE j \in MemOperandAt(str) :
                   \A k \in MemOperandAt(str) : j <= k
       IN  [kind |-> "obj", idx |-> -1,
            offset |-> parseInt(<<str[i]>>), reg |-> RegMapGet(str[i + 2])]
  ELSE IF Len(str) = 1 /\ RegMapGet(str[1]) # -1
  THEN [kind |-> "num", idx |-> RegMapGet(str[1]), offset |-> NaN, reg |-> -1]
  ELSE [kind |-> "undef", idx |-> -1, offset |-> NaN, reg |-> -1]

\* the index a decoded operand is when used as one (-1: not a number)
AsIndex(p) == IF p.kind = "num" THEN p.idx ELSE -1

\* a JavaScript value that is an int32 or undefined
Val(n) == [undef |-> FALSE, v |-> n]
UndefVal == [undef |-> TRUE, v |-> 0]
AsNum(j) == IF j.undef THEN NaN ELSE Num(j.v)
AsInt32(j) == IF j.undef THEN 0 ELSE j.v

\* getRegVal that reads the stored element of register 0
getRegValNoZero(rIdx, nextRegs) ==
  IF rIdx \in RegIdx THEN Val(nextRegs[rIdx]) ELSE UndefVal

\* getRegVal: $zero is always 0; nextRegs[rIdx] is undefined when rIdx is
\* not an index
getRegVal(rIdx, nextRegs) ==
  IF rIdx = 0 THEN Val(0)
  ELSE IF rIdx \in RegIdx THEN Val(nextRegs[rIdx])
  ELSE UndefVal

\* nextRegs[k] = v on the Int32Array: stored wrapped when k is an index,
\* an ordinary property (no element changes) otherwise
WriteReg(nextRegs, p, v) ==
  IF p.kind = "num" THEN [nextRegs EXCEPT ![p.idx] = ToInt32(v)] ELSE nextRegs

\* getImmOrLabel: the label's address if the operand names a label, else
\* parseInt of it
getImmOrLabel(str, labelMap) ==
  IF Len(str) = 1 /\ str[1] \in DOMAIN labelMap THEN labelMap[str[1]]
  ELSE parseInt(str)

(***************************************************************************)
(* Output text: a sequence of UTF-16 code units                            *)
(***************************************************************************)
RECURSIVE Digits(_)
\* the decimal digits of a natural number, as character codes
Digits(n) == IF n < 10 THEN <<48 + n>> ELSE Digits(n \div 10) \o <<48 + (n % 10)>>

\* Number.prototype.toString of an int32
IntToString(n) ==
  IF n >= 0 THEN Digits(n)
  ELSE LET d == (10 - (n % 10)) % 10      \* the last digit of |n|
           q == -((n + d) \div 10)        \* |n| without its last digit
       IN  <<45>> \o (IF q = 0 THEN <<>> ELSE Digits(q)) \o <<48 + d>>

\* String.fromCharCode: the code is taken modulo 2^16
fromCharCode(n) == n % 65536

\* print_char that keeps the low byte of the code only
PrintCharLowByte(a0) == <<a0 % 256>>

\* print_char: outputAppend = String.fromCharCode(nextRegs[4])
PrintChar(a0) == <<fromCharCode(a0)>>

\* the number of characters the print_string loop appends: the loop leaves
\* at the first zero byte or when loopGuard reaches the cap
ScanLength(addr, mem, cap) ==
  CHOOSE n \in 0..cap :
    /\ n = cap \/ getMemByte(NumAdd(Num(addr), Num(n)), mem) = 0
    /\ \A k \in 0..(n - 1) : getMemByte(NumAdd(Num(addr), Num(k)), mem) # 0

\* a print_string loop without the loop guard, on a window one longer
PrintStringUnguarded(addr, mem) ==
  [i \in 1..ScanLength(addr, mem, LoopGuardCap + 1) |->
     fromCharCode(getMemByte(NumAdd(Num(addr), Num(i - 1)), mem))]

\* print_string: the characters from address addr up to the first zero byte
\* or the cap
PrintString(addr, mem) ==
  [i \in 1..ScanLength(addr, mem, LoopGuardCap) |->
     fromCharCode(getMemByte(NumAdd(Num(addr), Num(i - 1)), mem))]

(***************************************************************************)
(* The interpreter: one call of step on the values its closure holds       *)
(***************************************************************************)
NoError == [kind |-> "null", pc |-> NaN]
RuntimeError(pc) == [kind |-> "Runtime", pc |-> pc]
AssemblerError == [kind |-> "Assembler", pc |-> NaN]

\* instructions.find(inst => inst.pc === pc), as a set of positions
FindInst(instructions, pc) ==
  {i \in 1..Len(instructions) : ~pc.nan /\ instructions[i].pc = pc}

OpName(inst) == IF Len(inst.op) = 1 THEN inst.op[1] ELSE "?"

\* the outcomes of a step.  "blocked": the error guard returned; "noinst":
\* no instruction at pc, setIsRunning(false); "commit": setRegs, setMemory,
\* setPc and the output append (stop: the exit syscall called
\* setIsRunning(false)); "fault": the catch block ran
Outcome(kind, regs, memory, pc, out, stop) ==
  [kind |-> kind, regs |-> regs, memory |-> memory, pc |-> pc, out |-> out,
   stop |-> stop]

\* the case labels of the switch on op
KnownOps ==
  { "add", "addu", "sub", "subu", "addi", "addiu", "mul", "and", "or", "xor",
    "sll", "srl", "slt", "slti", "lui", "li", "la", "move", "lw", "sw", "lb",
    "sb", "beq", "bne", "j", "jal", "jr", "syscall" }

\* a step that treats an unknown mnemonic as an error
ThrowsOnUnknownOp(inst) ==
  \/ /\ OpName(inst) \in {"lw", "sw", "lb", "sb"}
     /\ parseReg(Arg(inst.args, 1)).kind = "undef"
  \/ OpName(inst) \notin KnownOps

\* whether executing the instruction throws: only the destructuring of an
\* undefined parseReg result in lw, sw, lb, sb does
Throws(inst) ==
  /\ OpName(inst) \in {"lw", "sw", "lb", "sb"}
  /\ parseReg(Arg(inst.args, 1)).kind = "undef"

\* the effective address of lw/sw/lb/sb: getRegVal(reg) + offset, unwrapped
EffAddr(inst, regs) ==
  LET m == parseReg(Arg(inst.args, 1))
  IN  NumAdd(AsNum(getRegVal(m.reg, regs)), m.offset)

Exec(inst, c) ==
  LET op == OpName(inst)
      args == inst.args
      pc4 == NumAdd(c.pc, Num(4))
      R(k) == parseReg(Arg(args, k))
      G(k) == getRegVal(AsIndex(R(k)), c.regs)
      Imm(k) == parseInt(Arg(args, k))
      Alu(v) == Outcome("commit", WriteReg(c.regs, R(0), v), c.memory, pc4, <<>>, FALSE)
      Jump(regs, target) == Outcome("commit", regs, c.memory, target, <<>>, FALSE)
      Plain == Outcome("commit", c.regs, c.memory, pc4, <<>>, FALSE)
      Emit(out) == Outcome("commit", c.regs, c.memory, pc4, out, FALSE)
      addr == EffAddr(inst, c.regs)
      byte == getMemByte(addr, c.memory)
      v0 == c.regs[2]
      a0 == c.regs[4]
  IN  CASE op \in {"add", "addu"} -> Alu(NumAdd(AsNum(G(1)), AsNum(G(2))))
        [] op \in {"sub", "subu"} -> Alu(NumSub(AsNum(G(1)), AsNum(G(2))))
        [] op \in {"addi", "addiu"} -> Alu(NumAdd(AsNum(G(1)), Imm(2)))
        [] op = "mul" -> Alu(Num(Imul(AsInt32(G(1)), AsInt32(G(2)))))
        [] op = "and" -> Alu(Num(And32(AsInt32(G(1)), AsInt32(G(2)))))
        [] op = "or" -> Alu(Num(Or32(AsInt32(G(1)), AsInt32(G(2)))))
        [] op = "xor" -> Alu(Num(Xor32(AsInt32(G(1)), AsInt32(G(2)))))
        [] op = "sll" -> Alu(Num(Shl32(AsInt32(G(1)), ToInt32(Imm(2)))))
        [] op = "srl" -> Alu(Num(Shr32(AsInt32(G(1)), ToInt32(Imm(2)))))
        [] op = "slt" -> Alu(Num(IF NumLess(AsNum(G(1)), AsNum(G(2))) THEN 1 ELSE 0))
        [] op = "slti" -> Alu(Num(IF NumLess(AsNum(G(1)), Imm(2)) THEN 1 ELSE 0))
        [] op = "lui" -> Alu(Num(Shl32(ToInt32(Imm(1)), 16)))
        [] op = "li" -> Alu(Imm(1))
        [] op = "la" -> Alu(getImmOrLabel(Arg(args, 1), c.labelMap))
        [] op = "move" -> Alu(AsNum(G(1)))
        [] op = "lw" -> Alu(Num(getMemWord(addr, c.memory)))
        [] op = "sw" ->
             Outcome("commit", c.regs, setMemWord(addr, AsInt32(G(0)), c.memory),
                     pc4, <<>>, FALSE)
        [] op = "lb" ->
             Alu(Num(IF And32(byte, 128) # 0 THEN Or32(byte, -256) ELSE byte))
        [] op = "sb" ->
             Outcome("commit", c.regs, setMemByte(addr, AsInt32(G(0)), c.memory),
                     pc4, <<>>, FALSE)
        [] op = "beq" ->
             IF G(0) = G(1) THEN Jump(c.regs, getImmOrLabel(Arg(args, 2), c.labelMap))
             ELSE Plain
        [] op = "bne" ->
             IF G(0) # G(1) THEN Jump(c.regs, getImmOrLabel(Arg(args, 2), c.labelMap))
             ELSE Plain
        [] op = "j" -> Jump(c.regs, getImmOrLabel(Arg(args, 0), c.labelMap))
        [] op = "jal" ->
             Jump([c.regs EXCEPT ![31] = ToInt32(pc4)],
                  getImmOrLabel(Arg(args, 0), c.labelMap))
        [] op = "jr" -> Jump(c.regs, AsNum(G(0)))
        [] op = "syscall" ->
             IF v0 = 1 THEN Emit(IntToString(a0))
             ELSE IF v0 = 4 THEN Emit(PrintString(a0, c.memory))
             ELSE IF v0 = 10 THEN Outcome("commit", c.regs, c.memory, Num(0), <<>>, TRUE)
             ELSE IF v0 = 11 THEN Emit(PrintChar(a0))
             ELSE Plain
        [] OTHER -> Plain

\* step() that, while an error is set, skips the instruction at pc
StepOutcomeSkipsFaulted(c) ==
  IF c.error # NoError
  THEN Outcome("commit", c.regs, c.memory, NumAdd(c.pc, Num(4)), <<>>, FALSE)
  ELSE IF FindInst(c.instructions, c.pc) = {}
  THEN Outcome("noinst", c.regs, c.memory, c.pc, <<>>, TRUE)
  ELSE LET inst == c.instructions[CHOOSE i \in FindInst(c.instructions, c.pc) :
                                    \A j \in FindInst(c.instructions, c.pc) : i <= j]
       IN  IF Throws(inst)
           THEN Outcome("fault", c.regs, c.memory, c.pc, <<>>, TRUE)
           ELSE Exec(inst, c)

\* step(): the guard on error, the fetch, and the try/catch around Exec
StepOutcome(c) ==
  IF c.error # NoError
  THEN Outcome("blocked", c.regs, c.memory, c.pc, <<>>, FALSE)
  ELSE IF FindInst(c.instructions, c.pc) = {}
  THEN Outcome("noinst", c.regs, c.memory, c.pc, <<>>, TRUE)
  ELSE LET inst == c.instructions[CHOOSE i \in FindInst(c.instructions, c.pc) :
                                    \A j \in FindInst(c.instructions, c.pc) : i <= j]
       IN  IF Throws(inst)
           THEN Outcome("fault", c.regs, c.memory, c.pc, <<>>, TRUE)
           ELSE Exec(inst, c)

(***************************************************************************)
(* Source text                                                             *)
(***************************************************************************)
SrcLine(label, toks, str) == [label |-> label, toks |-> toks, str |-> str]
\* an empty line or a comment
Blank == SrcLine(<<>>, <<>>, <<>>)
\* one-lexeme tokens
Toks(names) == [i \in 1..Len(names) |-> <<names[i]>>]
\* a memory operand offset(reg)
MemOp(offset, reg) == <<offset, "(", reg, ")">>
\* a line without a label
Code(toks) == SrcLine(<<>>, toks, <<>>)
\* a label alone on its line
Lbl(label) == SrcLine(<<label>>, <<>>, <<>>)
\* label: directive "str"
Str(label, directive, str) == SrcLine(<<label>>, <<<<directive>>>>, str)
\* label: directive literal
Data(label, toks) == SrcLine(<<label>>, toks, <<>>)

\* DEFAULT_CODE, line by line (the number is the line of the source text)
DEFAULT_CODE ==
  <<
    Blank,                                                    \* 1: # MIPS Fibonacci Generator
    Blank,                                                    \* 2: # Calculates the first N Fibonacci numbers
    Blank,                                                    \* 3: 
    Code(Toks(<<".data">>)),                                  \* 4: .data
    Str("msg_start", ".asciiz", <<70, 105, 98, 111, 110, 97, 99, 99, 105, 32, 83, 101, 113, 117, 101, 110, 99, 101, 58, 32>>), \* 5: msg_start: .asciiz "Fibonacci Sequence: "
    Str("space", ".asciiz", <<44, 32>>),                      \* 6: space:     .asciiz ", "
    Str("newline", ".asciiz", <<92, 110>>),                   \* 7: newline:   .asciiz "\n"
    Blank,                                                    \* 8: 
    Code(Toks(<<".text">>)),                                  \* 9: .text
    Lbl("main"),                                              \* 10: main:
    Blank,                                                    \* 11: # Initialize variables
    Code(Toks(<<"addi", "$t0", "$zero", "10">>)),             \* 12: addi $t0, $zero, 10    # N = 10 (count)
    Code(Toks(<<"addi", "$t1", "$zero", "0">>)),              \* 13: addi $t1, $zero, 0     # a = 0
    Code(Toks(<<"addi", "$t2", "$zero", "1">>)),              \* 14: addi $t2, $zero, 1     # b = 1
    Blank,                                                    \* 15: 
    Blank,                                                    \* 16: # Print start message
    Code(Toks(<<"li", "$v0", "4">>)),                         \* 17: li $v0, 4
    Code(Toks(<<"la", "$a0", "msg_start">>)),                 \* 18: la $a0, msg_start
    Code(Toks(<<"syscall">>)),                                \* 19: syscall
    Blank,                                                    \* 20: 
    Blank,                                                    \* 21: # Print first number (0)
    Code(Toks(<<"li", "$v0", "1">>)),                         \* 22: li $v0, 1
    Code(Toks(<<"add", "$a0", "$zero", "$t1">>)),             \* 23: add $a0, $zero, $t1
    Code(Toks(<<"syscall">>)),                                \* 24: syscall
    Blank,                                                    \* 25: 
    Blank,                                                    \* 26: # Print space
    Code(Toks(<<"li", "$v0", "4">>)),                         \* 27: li $v0, 4
    Code(Toks(<<"la", "$a0", "space">>)),                     \* 28: la $a0, space
    Code(Toks(<<"syscall">>)),                                \* 29: syscall
    Blank,                                                    \* 30: 
    Lbl("loop"),                                              \* 31: loop:
    Blank,                                                    \* 32: # Check if N <= 0
    Code(Toks(<<"beq", "$t0", "$zero", "exit">>)),            \* 33: beq $t0, $zero, exit
    Blank,                                                    \* 34: 
    Blank,                                                    \* 35: # Calculate next: c = a + b
    Code(Toks(<<"add", "$t3", "$t1", "$t2">>)),               \* 36: add $t3, $t1, $t2
    Blank,                                                    \* 37: 
    Blank,                                                    \* 38: # Move: a = b, b = c
    Code(Toks(<<"add", "$t1", "$zero", "$t2">>)),             \* 39: add $t1, $zero, $t2
    Code(Toks(<<"add", "$t2", "$zero", "$t3">>)),             \* 40: add $t2, $zero, $t3
    Blank,                                                    \* 41: 
    Blank,                                                    \* 42: # Print current number (b)
    Code(Toks(<<"li", "$v0", "1">>)),                         \* 43: li $v0, 1
    Code(Toks(<<"add", "$a0", "$zero", "$t1">>)),             \* 44: add $a0, $zero, $t1
    Code(Toks(<<"syscall">>)),                                \* 45: syscall
    Blank,                                                    \* 46: 
    Blank,                                                    \* 47: # Decrement counter
    Code(Toks(<<"addi", "$t0", "$t0", "-1">>)),               \* 48: addi $t0, $t0, -1
    Blank,                                                    \* 49: 
    Blank,                                                    \* 50: # Print separator if not last
    Code(Toks(<<"beq", "$t0", "$zero", "skip_comma">>)),      \* 51: beq $t0, $zero, skip_comma
    Code(Toks(<<"li", "$v0", "4">>)),                         \* 52: li $v0, 4
    Code(Toks(<<"la", "$a0", "space">>)),                     \* 53: la $a0, space
    Code(Toks(<<"syscall">>)),                                \* 54: syscall
    Blank,                                                    \* 55: 
    Lbl("skip_comma"),                                        \* 56: skip_comma:
    Code(Toks(<<"j", "loop">>)),                              \* 57: j loop
    Blank,                                                    \* 58: 
    Lbl("exit"),                                              \* 59: exit:
    Blank,                                                    \* 60: # Print newline
    Code(Toks(<<"li", "$v0", "4">>)),                         \* 61: li $v0, 4
    Code(Toks(<<"la", "$a0", "newline">>)),                   \* 62: la $a0, newline
    Code(Toks(<<"syscall">>)),                                \* 63: syscall
    Blank,                                                    \* 64: 
    Blank,                                                    \* 65: # Exit program
    Code(Toks(<<"li", "$v0", "10">>)),                        \* 66: li $v0, 10
    Code(Toks(<<"syscall">>)),                                \* 67: syscall
    Blank                                                     \* 68: 
  >>

(***************************************************************************)
(* The assembler                                                           *)
(***************************************************************************)
\* s.replace(/ab/g, r) on character codes, for a # b (so that no two matches
\* overlap): every match start becomes r and the code after it is dropped
ReplacePair(s, a, b, r) ==
  LET starts == {i \in 1..(Len(s) - 1) : s[i] = a /\ s[i + 1] = b}
      Kept(e) == (e[1] - 1) \notin starts
      kept == SelectSeq([i \in 1..Len(s) |-> <<i, s[i]>>], Kept)
  IN  [j \in 1..Len(kept) |-> IF kept[j][1] \in starts THEN r ELSE kept[j][2]]

\* str.replace(/\\n/g, '\n').replace(/\\t/g, '\t')
Unescape(str) == ReplacePair(ReplacePair(str, 92, 110, 10), 92, 116, 9)

\* newDataSegment[dataPtr++] = byte, for each byte in turn (the addresses
\* ptr, ptr + 1, ... are distinct, so the writes are independent)
WriteBytes(data, ptr, bytes) ==
  [k \in {Num(ptr + j - 1) : j \in 1..Len(bytes)} |->
     bytes[(k.hi * 65536 + k.lo) - ptr + 1]] @@ data

\* the four bytes .word stores: (val >> 24) & 0xFF, ..., val & 0xFF
WordBytes(val) ==
  LET v == ToInt32(val)
  IN  << And32(Sar32(v, 24), 255), And32(Sar32(v, 16), 255),
         And32(Sar32(v, 8), 255), And32(v, 255) >>

AsmStart ==
  [section |-> ".text", dataPtr |-> DATA_START, textPtr |-> TEXT_START,
   newInstructions |-> <<>>, newLabelMap |-> <<>>,
   newSourceMap |-> <<>>, newDataSegment |-> EmptyMem]

\* a line of the .data section
AsmData(line, st) ==
  LET directive == line.toks[1]
      bytes == IF directive = <<".asciiz">> THEN Unescape(line.str) \o <<0>>
               ELSE IF directive = <<".ascii">> THEN Unescape(line.str)
               ELSE IF directive = <<".word">> THEN WordBytes(parseInt(Arg(line.toks, 1)))
               ELSE <<>>
  IN  [st EXCEPT !.newDataSegment = WriteBytes(@, st.dataPtr, bytes),
                 !.dataPtr = @ + Len(bytes)]

\* a text line whose instruction gets its address from the line number
AsmTextByLineNumber(line, i, st) ==
  [st EXCEPT !.newInstructions =
               Append(@, [pc |-> Num(TEXT_START + 4 * (i - 1)), op |-> line.toks[1],
                          args |-> Tail(line.toks), sourceLine |-> i]),
             !.newSourceMap = (Num(TEXT_START + 4 * (i - 1)) :> i) @@ @,
             !.textPtr = TEXT_START + 4 * i]

\* a line of the .text section: one instruction at textPtr
AsmText(line, i, st) ==
  [st EXCEPT !.newInstructions =
               Append(@, [pc |-> Num(st.textPtr), op |-> line.toks[1],
                          args |-> Tail(line.toks), sourceLine |-> i]),
             !.newSourceMap = (Num(st.textPtr) :> i) @@ @,
             !.textPtr = @ + 4]

\* the body of the loop over the lines, for line number i (1-based)
AsmLine(line, i, st) ==
  IF line.label = <<>> /\ line.toks = <<>> THEN st
  ELSE IF line.label = <<>> /\ line.toks = <<<<".data">>>>
  THEN [st EXCEPT !.section = ".data"]
  ELSE IF line.label = <<>> /\ line.toks = <<<<".text">>>>
  THEN [st EXCEPT !.section = ".text"]
  ELSE LET ptr == IF st.section = ".text" THEN st.textPtr ELSE st.dataPtr
           st1 == IF line.label = <<>> THEN st
                  ELSE [st EXCEPT !.newLabelMap = (line.label[1] :> Num(ptr)) @@ @]
       IN  IF line.toks = <<>> THEN st1
           ELSE IF st1.section = ".data" THEN AsmData(line, st1)
           ELSE AsmText(line, i, st1)

RECURSIVE AsmLines(_, _, _)
\* (the test on next only makes the evaluation of each line complete before
\* the following line is looked at)
AsmLines(lines, i, st) ==
  IF i > Len(lines) THEN st
  ELSE LET next == AsmLine(lines[i], i, st)
       IN  IF next.textPtr >= TEXT_START THEN AsmLines(lines, i + 1, next) ELSE next

\* the result of the parse of a source text
Parse(sourceCode) == AsmLines(sourceCode, 1, AsmStart)

\* whether the parse throws: no statement of the try block can, for any text
\* (parseInt of a missing or non-numeric literal is NaN, whose bytes are 0)
ParseThrows(sourceCode) == FALSE

(***************************************************************************)
(* Sources the editor may hold when Re-Assemble is pressed                 *)
(***************************************************************************)
\* the length of the unterminated buffer of LongStringCode
LongLen == 1001

\* writes with $zero as the destination, then reads of it
ZeroDestCode ==
  << Code(Toks(<<"addi", "$zero", "$zero", "5">>)),
     Code(Toks(<<"add", "$t0", "$zero", "$zero">>)),
     Code(Toks(<<"li", "$zero", "3">>)),
     Code(Toks(<<"la", "$zero", "here">>)),
     Lbl("here"),
     Code(Toks(<<"move", "$zero", "$sp">>)),
     Code(<<<<"lw">>, <<"$zero">>, MemOp("0", "$sp")>>),
     Code(Toks(<<"lui", "$zero", "1">>)),
     Code(Toks(<<"li", "$v0", "10">>)),
     Code(Toks(<<"syscall">>)) >>

\* branches and jumps to names that are no labels
BadTargetCode ==
  << Code(Toks(<<"li", "$t0", "1">>)),
     Code(Toks(<<"bne", "$t0", "$zero", "over">>)),
     Code(Toks(<<"li", "$t1", "2">>)),
     Lbl("over"),
     Code(Toks(<<"beq", "$t0", "$t1", "nowhere">>)),
     Code(Toks(<<"beq", "$t0", "$t0", "nowhere">>)),
     Code(Toks(<<"li", "$t2", "3">>)) >>

BadJumpCode ==
  << Code(Toks(<<"jal", "sub1">>)),
     Code(Toks(<<"j", "missing">>)),
     Lbl("sub1"),
     Code(Toks(<<"jr", "$ra">>)) >>

BadBneCode ==
  << Code(Toks(<<"li", "$t0", "1">>)),
     Code(Toks(<<"bne", "$t0", "$zero", "nowhere">>)),
     Code(Toks(<<"jal", "missing">>)) >>

\* sums and differences that leave the int32 range
OverflowCode ==
  << Code(Toks(<<"li", "$t0", "2147483647">>)),
     Code(Toks(<<"addi", "$t1", "$t0", "1">>)),
     Code(Toks(<<"add", "$t2", "$t0", "$t0">>)),
     Code(Toks(<<"sub", "$t3", "$t1", "$t0">>)),
     Code(Toks(<<"addu", "$t4", "$t1", "$t1">>)),
     Code(Toks(<<"subu", "$t5", "$zero", "$t1">>)),
     Code(Toks(<<"addiu", "$t6", "$t1", "-1">>)),
     Code(Toks(<<"addi", "$t7", "$t0", "2147483647">>)),
     Code(Toks(<<"sub", "$s0", "$t0", "$t1">>)),
     Code(Toks(<<"li", "$v0", "1">>)),
     Code(Toks(<<"move", "$a0", "$t1">>)),
     Code(Toks(<<"syscall">>)) >>

\* print_string on a buffer of LongLen characters without a zero byte
LongStringCode ==
  << Code(Toks(<<".data">>)),
     Str("buf", ".ascii", [i \in 1..LongLen |-> 65]),
     Code(Toks(<<".text">>)),
     Code(Toks(<<"li", "$v0", "4">>)),
     Code(Toks(<<"la", "$a0", "buf">>)),
     Code(Toks(<<"syscall">>)),
     Code(Toks(<<"li", "$v0", "10">>)),
     Code(Toks(<<"syscall">>)) >>

\* .word with a non-numeric and with a missing literal
BadWordCode ==
  << Code(Toks(<<".data">>)),
     Data("x", Toks(<<".word", "abc">>)),
     Data("y", Toks(<<".word">>)),
     Data("z", Toks(<<".word", "-2">>)),
     Code(Toks(<<".text">>)),
     Code(Toks(<<"la", "$t0", "z">>)),
     Code(<<<<"lw">>, <<"$t1">>, MemOp("0", "$t0")>>),
     Code(<<<<"lb">>, <<"$t2">>, MemOp("-4", "$t0")>>) >>

\* loads and stores, one with a memory operand that does not decode
MemoryCode ==
  << Code(Toks(<<"li", "$t0", "-2">>)),
     Code(<<<<"sw">>, <<"$t0">>, MemOp("4", "$sp")>>),
     Code(<<<<"lw">>, <<"$t1">>, MemOp("4", "$sp")>>),
     Code(<<<<"lb">>, <<"$t2">>, MemOp("5", "$sp")>>),
     Code(<<<<"sb">>, <<"$sp">>, MemOp("-8", "$zero")>>),
     Code(<<<<"lb">>, <<"$t3">>, MemOp("-8", "$zero")>>),
     Code(Toks(<<"frobnicate", "$t0">>)),
     Code(<<<<"sw">>, <<"$t0">>, <<"(", "$sp", ")">>>>),
     Code(Toks(<<"li", "$t4", "1">>)) >>

\* register operands that name no register, immediates that are no literal
BadOperandCode ==
  << Code(Toks(<<"li", "$t1", "5">>)),
     Code(Toks(<<"add", "$t0", "$bogus", "$t1">>)),
     Code(Toks(<<"li", "$bogus", "5">>)),
     Code(Toks(<<"addi", "$t2", "$t1", "xyz">>)),
     Code(Toks(<<"la", "$t3", "nowhere">>)),
     Code(Toks(<<"move", "$t4", "t1">>)),
     Code(Toks(<<"li", "$v0", "10">>)),
     Code(Toks(<<"syscall">>)) >>

\* a branch to an integer-literal target, then a jump to a register value
\* that is no multiple of 4
MisalignedCode ==
  << Code(Toks(<<"li", "$t0", "4194306">>)),
     Code(Toks(<<"bne", "$t0", "$zero", "4194312">>)),
     Code(Toks(<<"jr", "$t0">>)) >>

\* a store at $sp + 4 = 2^31 and a load at -2^31 + 0, the same address
\* modulo 2^32
WrapCode ==
  << Code(Toks(<<"li", "$t0", "321">>)),
     Code(<<<<"sw">>, <<"$t0">>, MemOp("4", "$sp")>>),
     Code(Toks(<<"li", "$t1", "-2147483648">>)),
     Code(<<<<"lw">>, <<"$t2">>, MemOp("0", "$t1")>>),
     Code(<<<<"lw">>, <<"$t3">>, MemOp("4", "$sp")>>) >>

\* print_char of 65, of 321 and of -1
PrintCharCode ==
  << Code(Toks(<<"li", "$v0", "11">>)),
     Code(Toks(<<"li", "$a0", "65">>)),
     Code(Toks(<<"syscall">>)),
     Code(Toks(<<"li", "$a0", "321">>)),
     Code(Toks(<<"syscall">>)),
     Code(Toks(<<"li", "$a0", "-1">>)),
     Code(Toks(<<"syscall">>)) >>

\* .text and .data sections interleaved, labels alone and on the line of an
\* instruction, references forward and backward
InterleavedCode ==
  << Blank,
     SrcLine(<<"start">>, Toks(<<"li", "$t0", "2">>), <<>>),
     Code(Toks(<<"j", "body">>)),
     Code(Toks(<<".data">>)),
     Data("w", Toks(<<".word", "5">>)),
     Blank,
     Code(Toks(<<".text">>)),
     Lbl("skipped"),
     Code(Toks(<<"li", "$t1", "1">>)),
     Lbl("body"),
     Blank,
     Code(Toks(<<".data">>)),
     Str("s", ".asciiz", <<65>>),
     Code(Toks(<<".text">>)),
     Code(Toks(<<"addi", "$t0", "$t0", "-1">>)),
     Code(Toks(<<"bne", "$t0", "$zero", "body">>)),
     Code(Toks(<<"beq", "$t0", "$zero", "done">>)),
     Code(Toks(<<"li", "$t1", "3">>)),
     SrcLine(<<"done">>, Toks(<<"jal", "start">>), <<>>),
     Lbl("end") >>

Sources ==
  << DEFAULT_CODE, ZeroDestCode, BadTargetCode, BadJumpCode, BadBneCode,
     OverflowCode, LongStringCode, BadWordCode, MemoryCode, BadOperandCode,
     MisalignedCode, WrapCode, PrintCharCode, InterleavedCode >>

\* the parse of each source
Parsed == [k \in 1..Len(Sources) |-> Parse(Sources[k])]
Thrown == [k \in 1..Len(Sources) |-> ParseThrows(Sources[k])]

(***************************************************************************)
(* The state of the useMipsSimulator hook, and the pending timer           *)
(***************************************************************************)
VARIABLES
  regs,          \* Int32Array(32)
  pc,            \* a Number
  memory,        \* sparse byte map
  output,        \* the accumulated output, as character codes
  isRunning,
  error,
  instructions,
  labelMap,
  sourceMap,
  timer,         \* <<>>, or <<c>>: a setTimeout is pending whose step closes over c
  last,          \* history: the last operation and what it executed
  probe          \* history of the word stores of SpecMem

vars == << regs, pc, memory, output, isRunning, error, instructions, labelMap,
           sourceMap, timer, last, probe >>

ZeroRegs == [i \in RegIdx |-> 0]
\* new Int32Array(32) with element 29 set to STACK_START
FreshRegs == [ZeroRegs EXCEPT ![29] = STACK_START]

\* what the step function of a render closes over
Closure(r, p, m, ins, lm, e) ==
  [regs |-> r, pc |-> p, memory |-> m, instructions |-> ins, labelMap |-> lm,
   error |-> e]
Current == Closure(regs, pc, memory, instructions, labelMap, error)

\* op: the operation; kind: the outcome of a step; inst: the instruction a
\* step fetched (<<>> if none); src: the source last assembled; ran: isRunning
\* when the operation began
Last(op, kind, inst, src) ==
  [op |-> op, kind |-> kind, inst |-> inst, src |-> src, ran |-> isRunning]

\* the useState initial values
Init ==
  /\ regs = ZeroRegs
  /\ pc = Num(TEXT_START)
  /\ memory = EmptyMem
  /\ output = <<>>
  /\ isRunning = FALSE
  /\ error = NoError
  /\ instructions = <<>>
  /\ labelMap = <<>>
  /\ sourceMap = <<>>
  /\ timer = <<>>
  /\ last = Last("init", "", <<>>, 0)
  /\ probe = <<>>

\* a run-loop effect without the cleanup that clears the pending timer
RunLoopEffectNoCleanup(depsChanged, fired, running, c) ==
  IF depsChanged /\ running THEN <<c>>
  ELSE IF fired THEN <<>>
  ELSE timer

\* the run-loop effect after the render that follows a handler: when one of
\* its dependencies [isRunning, pc, instructions, regs, memory] changed, the
\* cleanup clears the pending timer and a new one is set if isRunning; when
\* none changed the pending timer stays (a timer that fired is gone)
RunLoopEffect(depsChanged, fired, running, c) ==
  IF depsChanged THEN (IF running THEN <<c>> ELSE <<>>)
  ELSE IF fired THEN <<>>
  ELSE timer

\* assemble without the setIsRunning(false) of its pre-parse reset
AssembleKeepsRunning(k) ==
  /\ regs' = FreshRegs
  /\ pc' = Num(TEXT_START)
  /\ output' = <<>>
  /\ error' = NoError
  /\ instructions' = Parsed[k].newInstructions
  /\ labelMap' = Parsed[k].newLabelMap
  /\ memory' = Parsed[k].newDataSegment
  /\ sourceMap' = Parsed[k].newSourceMap
  /\ UNCHANGED isRunning
  /\ timer' = RunLoopEffect(TRUE, FALSE, isRunning',
                 Closure(regs', pc', memory', instructions', labelMap', error'))
  /\ last' = Last("assemble", "ok", <<>>, k)
  /\ UNCHANGED probe

\* assemble(Sources[k]): the pre-parse reset, then the install, or the
\* catch block when the parse throws
Assemble(k) ==
  /\ regs' = FreshRegs
  /\ pc' = Num(TEXT_START)
  /\ output' = <<>>
  /\ isRunning' = FALSE
  /\ IF Thrown[k]
     THEN /\ error' = AssemblerError
          /\ UNCHANGED << instructions, labelMap, memory, sourceMap >>
     ELSE /\ error' = NoError
          /\ instructions' = Parsed[k].newInstructions
          /\ labelMap' = Parsed[k].newLabelMap
          /\ memory' = Parsed[k].newDataSegment
          /\ sourceMap' = Parsed[k].newSourceMap
  /\ timer' = RunLoopEffect(TRUE, FALSE, isRunning',
                 Closure(regs', pc', memory', instructions', labelMap', error'))
  /\ last' = Last("assemble", IF Thrown[k] THEN "error" ELSE "ok", <<>>, k)
  /\ UNCHANGED probe

\* reset that restores the data image of the source last assembled
ResetRestoresData ==
  /\ regs' = FreshRegs
  /\ pc' = Num(TEXT_START)
  /\ memory' = Parsed[last.src].newDataSegment
  /\ output' = <<>>
  /\ isRunning' = FALSE
  /\ error' = NoError
  /\ UNCHANGED << instructions, labelMap, sourceMap, probe >>
  /\ timer' = RunLoopEffect(TRUE, FALSE, FALSE,
                 Closure(regs', pc', memory', instructions, labelMap, error'))
  /\ last' = Last("reset", "", <<>>, last.src)

\* reset that forgets the stack pointer
ResetNoStackPointer ==
  /\ regs' = ZeroRegs
  /\ pc' = Num(TEXT_START)
  /\ memory' = EmptyMem
  /\ output' = <<>>
  /\ isRunning' = FALSE
  /\ error' = NoError
  /\ UNCHANGED << instructions, labelMap, sourceMap, probe >>
  /\ timer' = RunLoopEffect(TRUE, FALSE, FALSE,
                 Closure(regs', pc', memory', instructions, labelMap, error'))
  /\ last' = Last("reset", "", <<>>, last.src)

reset ==
  /\ regs' = FreshRegs
  /\ pc' = Num(TEXT_START)
  /\ memory' = EmptyMem
  /\ output' = <<>>
  /\ isRunning' = FALSE
  /\ error' = NoError
  /\ UNCHANGED << instructions, labelMap, sourceMap, probe >>
  /\ timer' = RunLoopEffect(TRUE, FALSE, FALSE,
                 Closure(regs', pc', memory', instructions, labelMap, error'))
  /\ last' = Last("reset", "", <<>>, last.src)

\* the instruction a step of closure c fetches, as a sequence of 0 or 1
Fetched(c) ==
  IF c.error # NoError \/ FindInst(c.instructions, c.pc) = {} THEN <<>>
  ELSE <<c.instructions[CHOOSE i \in FindInst(c.instructions, c.pc) : TRUE]>>

\* a step that sets the PC to pc + 4 before it executes, so that a fault
\* leaves the PC advanced
ApplyStepEagerPc(c, fired) ==
  LET o == StepOutcome(c)
  IN  /\ regs' = IF o.kind = "commit" THEN o.regs ELSE regs
      /\ memory' = IF o.kind = "commit" THEN o.memory ELSE memory
      /\ pc' = IF o.kind = "commit" THEN o.pc
               ELSE IF o.kind = "fault" THEN NumAdd(c.pc, Num(4))
               ELSE pc
      /\ output' = IF o.kind = "commit" THEN output \o o.out ELSE output
      /\ isRunning' = IF o.stop THEN FALSE ELSE isRunning
      /\ error' = IF o.kind = "fault" THEN RuntimeError(c.pc) ELSE error
      /\ UNCHANGED << instructions, labelMap, sourceMap, probe >>
      /\ timer' = RunLoopEffect(o.kind \in {"commit", "fault"} \/ isRunning' # isRunning,
                     fired, isRunning',
                     Closure(regs', pc', memory', instructions, labelMap, error'))
      /\ last' = Last(IF fired THEN "timer" ELSE "step", o.kind, Fetched(c), last.src)

\* the state updates of one call of step whose closure is c; fired: the
\* call is the timer's
ApplyStep(c, fired) ==
  LET o == StepOutcome(c)
  IN  /\ regs' = IF o.kind = "commit" THEN o.regs ELSE regs
      /\ memory' = IF o.kind = "commit" THEN o.memory ELSE memory
      /\ pc' = IF o.kind = "commit" THEN o.pc ELSE pc
      /\ output' = IF o.kind = "commit" THEN output \o o.out ELSE output
      /\ isRunning' = IF o.stop THEN FALSE ELSE isRunning
      /\ error' = IF o.kind = "fault" THEN RuntimeError(c.pc) ELSE error
      /\ UNCHANGED << instructions, labelMap, sourceMap, probe >>
      /\ timer' = RunLoopEffect(o.kind = "commit" \/ isRunning' # isRunning, fired,
                     isRunning',
                     Closure(regs', pc', memory', instructions, labelMap, error'))
      /\ last' = Last(IF fired THEN "timer" ELSE "step", o.kind, Fetched(c), last.src)

\* the App's mount effect: sim.assemble(DEFAULT_CODE)
Mount ==
  /\ last.op = "init"
  /\ Assemble(1)

\* the Re-Assemble button, with any of the sources in the editor
ReAssemble ==
  /\ last.op # "init"
  /\ \E k \in 1..Len(Sources) : Assemble(k)

\* the Reset button
Reset ==
  /\ last.op # "init"
  /\ reset

\* a call of step() of the current render (the Step button)
Step ==
  /\ last.op # "init"
  /\ ApplyStep(Current, FALSE)

\* the pending timer fires: the step of the render that set it runs
TimerStep ==
  /\ timer # <<>>
  /\ ApplyStep(timer[1], TRUE)

\* a Run/Pause button that is enabled while an error is set
RunPauseAlways ==
  /\ last.op # "init"
  /\ isRunning' = ~isRunning
  /\ UNCHANGED << regs, pc, memory, output, error, instructions, labelMap,
                  sourceMap, probe >>
  /\ timer' = RunLoopEffect(TRUE, FALSE, isRunning', Current)
  /\ last' = Last("run", "", <<>>, last.src)

\* the Run/Pause button: setIsRunning(!isRunning), disabled while an error
\* is set
RunPause ==
  /\ last.op # "init"
  /\ error = NoError
  /\ isRunning' = ~isRunning
  /\ UNCHANGED << regs, pc, memory, output, error, instructions, labelMap,
                  sourceMap, probe >>
  /\ timer' = RunLoopEffect(TRUE, FALSE, isRunning', Current)
  /\ last' = Last("run", "", <<>>, last.src)

Next == Mount \/ ReAssemble \/ Reset \/ Step \/ TimerStep \/ RunPause

Spec == Init /\ [][Next]_vars

\* the built-in program run from its post-assemble state: no Reset and no
\* Re-Assemble
NextRun == Mount \/ Step \/ TimerStep \/ RunPause

SpecRun == Init /\ [][NextRun]_vars

(***************************************************************************)
(* The memory helpers on their own: word and byte stores at addresses and  *)
(* values drawn from sets that hold the boundary cases                     *)
(***************************************************************************)
\* the number of stores of a behaviour of SpecMem
MaxStores == 2

\* 0, 2 (overlapping the word at 0), DATA_START, STACK_START (the word ends
\* at 2^31 - 1), -4, 2^31, 2^32 - 2 (the word crosses 2^32)
ProbeAddrs ==
  { Num(0), Num(2), Num(DATA_START), Num(STACK_START), Num(-4),
    MkNum(32768, 0), MkNum(65535, 65534) }

ProbeVals == { 0, -2, 305419896, MaxInt32, MinInt32, -16777216 }
ProbeBytes == { 0, 511 }

Probe(kind, addr, val) == [kind |-> kind, addr |-> addr, val |-> val]

StoreWord ==
  /\ Len(probe) < MaxStores
  /\ \E a \in ProbeAddrs, v \in ProbeVals :
       /\ memory' = setMemWord(a, v, memory)
       /\ probe' = Append(probe, Probe("word", a, v))
  /\ last' = Last("mem", "", <<>>, 0)
  /\ UNCHANGED << regs, pc, output, isRunning, error, instructions, labelMap,
                  sourceMap, timer >>

StoreByte ==
  /\ Len(probe) < MaxStores
  /\ \E a \in ProbeAddrs, v \in ProbeBytes :
       /\ memory' = setMemByte(a, v, memory)
       /\ probe' = Append(probe, Probe("byte", a, v))
  /\ last' = Last("mem", "", <<>>, 0)
  /\ UNCHANGED << regs, pc, output, isRunning, error, instructions, labelMap,
                  sourceMap, timer >>

NextMem == StoreWord \/ StoreByte

SpecMem == Init /\ [][NextMem]_vars

(***************************************************************************)
(* Properties                                                              *)
(***************************************************************************)
\* the last operation was a call of step (the button's or the timer's)
Stepped == last.op \in {"step", "timer"}
\* ... that fetched an instruction with mnemonic in ops
SteppedOn(ops) == Stepped /\ last.inst # <<>> /\ OpName(last.inst[1]) \in ops
LastInst == last.inst[1]
\* an operand that is present, names no label and is no integer literal
UnresolvedName(str, lm) == str # Undefined /\ getImmOrLabel(str, lm).nan
\* a Number is an integer multiple of 2^32
MultipleOf2p32(x) == ~x.nan /\ x.lo = 0 /\ x.hi % 65536 = 0
InInt32(n) == MinInt32 <= n /\ n <= MaxInt32

\* C1: in every reachable state register 0 ($zero) of the register file
\* holds 0, also right after a step whose destination operand is $zero.
C1_ZeroRegisterIsZero == regs[0] = 0

\* a step has just executed an instruction whose destination is $zero
C1_ZeroDestinationExecuted ==
  /\ SteppedOn({"addi", "add", "li", "la", "move", "lw", "lui"})
  /\ last.kind = "commit"
  /\ Arg(LastInst.args, 0) = <<"$zero">>

\* C2: a step that executes a taken beq/bne, or a j/jal, whose target is a
\* name that is no label and no integer literal sets the error to a
\* RuntimeFault reporting that instruction's PC.
C2_UnresolvedTargetFaults ==
  ( /\ Stepped
    /\ last.inst # <<>>
    /\ \/ /\ OpName(LastInst) \in {"j", "jal"}
          /\ UnresolvedName(Arg(LastInst.args, 0), labelMap)
       \/ /\ OpName(LastInst) = "beq"
          /\ getRegVal(AsIndex(parseReg(Arg(LastInst.args, 0))), regs)
               = getRegVal(AsIndex(parseReg(Arg(LastInst.args, 1))), regs)
          /\ UnresolvedName(Arg(LastInst.args, 2), labelMap)
       \/ /\ OpName(LastInst) = "bne"
          /\ getRegVal(AsIndex(parseReg(Arg(LastInst.args, 0))), regs)
               # getRegVal(AsIndex(parseReg(Arg(LastInst.args, 1))), regs)
          /\ UnresolvedName(Arg(LastInst.args, 2), labelMap) )
  => error = RuntimeError(LastInst.pc)

\* C3: assembling while continuous-run is active stops the run loop: after
\* an assemble isRunning is false and no timer is pending; a pending timer
\* always belongs to the current render (its step sees the current program
\* and machine state); a timer-driven step only executes an instruction of
\* the current instruction list; and isRunning only becomes true by a Run
\* request.
C3_AssembleStopsRunLoop ==
  [][ /\ (last'.op = "assemble" => ~isRunning' /\ timer' = <<>>)
      /\ (timer' # <<>> =>
            /\ isRunning'
            /\ timer'[1] = Closure(regs', pc', memory', instructions', labelMap', error'))
      /\ (last'.op = "timer" /\ last'.inst # <<>> =>
            \E i \in 1..Len(instructions') : instructions'[i] = last'.inst[1])
      /\ (~isRunning /\ isRunning' => last'.op = "run") ]_vars

\* assemble was called while continuous-run was active
C3_AssembledWhileRunning ==
  /\ last.op = "assemble"
  /\ last.ran
  /\ last.src # 1
  /\ ~isRunning

\* the machine stopped at the exit syscall
Exited ==
  /\ SteppedOn({"syscall"})
  /\ last.kind = "commit"
  /\ pc = Num(0)
  /\ regs[2] = 10

\* "0, 1, 1, 2, 3, 5, 8, 13, 21, 34" and a newline
FirstTenFibonacci ==
  << 48, 44, 32, 49, 44, 32, 49, 44, 32, 50, 44, 32, 51, 44, 32, 53, 44, 32,
     56, 44, 32, 49, 51, 44, 32, 50, 49, 44, 32, 51, 52, 10 >>
\* "Fibonacci Sequence: "
Heading ==
  << 70, 105, 98, 111, 110, 97, 99, 99, 105, 32, 83, 101, 113, 117, 101, 110,
     99, 101, 58, 32 >>

\* C4: the built-in Fibonacci program, run from its post-assemble state,
\* reaches the exit syscall with the machine stopped and no error, and the
\* output is then the first 10 Fibonacci numbers, comma-and-space
\* separated, and one newline (with or without the heading the program
\* prints first).
C4_FibonacciOutput ==
  Exited =>
    /\ ~isRunning
    /\ error = NoError
    /\ output \in {FirstTenFibonacci, Heading \o FirstTenFibonacci}

\* the built-in program has stopped at its exit syscall
C4_FibonacciExited == Exited /\ last.src = 1

\* the big-endian bytes of an int32, most significant first
BigEndian(v) == << Hi16(v) \div 256, Hi16(v) % 256, Lo16(v) \div 256, Lo16(v) % 256 >>
LastProbe == probe[Len(probe)]

\* C5: after setMemWord(A, V), getMemWord(A) is V and getMemByte at A, A+1,
\* A+2, A+3 gives the big-endian bytes of V; an address never written
\* reads as 0.
C5_WordRoundTrip ==
  /\ (probe # <<>> /\ LastProbe.kind = "word") =>
        /\ getMemWord(LastProbe.addr, memory) = LastProbe.val
        /\ \A i \in 0..3 :
             getMemByte(NumAdd(LastProbe.addr, Num(i)), memory)
               = BigEndian(LastProbe.val)[i + 1]
  /\ \A a \in ProbeAddrs, i \in 0..3 :
        (\A j \in 1..Len(probe) :
            NumAdd(a, Num(i)) \notin
              {NumAdd(probe[j].addr, Num(d)) :
                 d \in 0..(IF probe[j].kind = "word" THEN 3 ELSE 0)})
        => getMemByte(NumAdd(a, Num(i)), memory) = 0

\* a word with four different bytes was stored over earlier contents
C5_WordStoredOverWord ==
  /\ Len(probe) = 2
  /\ probe[1].kind = "word"
  /\ probe[1].val = -2
  /\ LastProbe.kind = "word"
  /\ LastProbe.val = 305419896
  /\ LastProbe.addr = MkNum(65535, 65534)
  /\ probe[1].addr = LastProbe.addr

AddOps == {"add", "addu", "sub", "subu", "addi", "addiu"}
\* the operand value an add/sub instruction reads from a source register
OperandValue(str, r) == IF str = <<"$zero">> THEN 0 ELSE r[RegMapGet(str[1])]
\* the exact (unwrapped) result of an add/sub instruction on registers r
ExactResult(inst, r) ==
  LET a == Num(OperandValue(Arg(inst.args, 1), r))
      b == IF OpName(inst) \in {"addi", "addiu"}
           THEN Num(IntLits[Arg(inst.args, 2)[1]])
           ELSE Num(OperandValue(Arg(inst.args, 2), r))
  IN  IF OpName(inst) \in {"sub", "subu"} THEN NumSub(a, b) ELSE NumAdd(a, b)

\* the operand is the name of a register
IsRegName(str) == Len(str) = 1 /\ RegMapGet(str[1]) # -1
\* an add/sub instruction whose operands are registers and, for addi and
\* addiu, a decimal literal
AddOperandsDecode(inst) ==
  /\ IsRegName(Arg(inst.args, 0))
  /\ IsRegName(Arg(inst.args, 1))
  /\ IF OpName(inst) \in {"addi", "addiu"}
     THEN Len(Arg(inst.args, 2)) = 1 /\ Arg(inst.args, 2)[1] \in DecimalLits
     ELSE IsRegName(Arg(inst.args, 2))

\* C6: a step on add, addu, sub, subu, addi or addiu (with operands that
\* decode) stores in the destination register the 32-bit two's-complement
\* wraparound of the exact sum or difference and sets no error.
C6_AddSubWrap ==
  [][ ( /\ last'.op \in {"step", "timer"}
        /\ last'.inst # <<>>
        /\ OpName(last'.inst[1]) \in AddOps
        /\ AddOperandsDecode(last'.inst[1]) )
      => /\ last'.kind = "commit"
         /\ error' = NoError
         /\ LET inst == last'.inst[1]
                d == RegMapGet(Arg(inst.args, 0)[1])
            IN  /\ InInt32(regs'[d])
                /\ MultipleOf2p32(NumSub(Num(regs'[d]), ExactResult(inst, regs))) ]_vars

\* addi has just computed 0x7FFFFFFF + 1 = 0x80000000
C6_AddiOverflowed ==
  /\ SteppedOn({"addi"})
  /\ LastInst.args = Toks(<<"$t1", "$t0", "1">>)
  /\ regs[8] = 2147483647
  /\ regs[9] = (-2147483647) - 1
  /\ error = NoError

\* C7: reset produces a state in which every register is 0 except register
\* 29 ($sp), which is STACK_START (0x7FFFFFFC); PC is TEXT_START; memory is
\* empty; output is empty; error is cleared and continuous-run is off.
C7_ResetState ==
  last.op = "reset" =>
    /\ \A i \in RegIdx : regs[i] = IF i = 29 THEN 2147483644 ELSE 0
    /\ pc = Num(4194304)
    /\ DOMAIN memory = {}
    /\ output = <<>>
    /\ error = NoError
    /\ ~isRunning
    /\ timer = <<>>

\* reset was called while a program with data was running
C7_ResetWhileRunning ==
  /\ last.op = "reset"
  /\ last.ran
  /\ last.src = 1

\* no zero byte in the scan window of print_string at address a
NoZeroInWindow(a, mem) ==
  \A k \in 0..(LoopGuardCap - 1) : getMemByte(NumAdd(Num(a), Num(k)), mem) # 0

\* C8: a print_string syscall on a buffer without a zero byte in the scan
\* window sets no error: the step completes, appends at most 1000
\* characters, advances PC by 4 and leaves registers and memory unchanged.
C8_PrintStringTruncates ==
  [][ ( /\ last'.op \in {"step", "timer"}
        /\ last'.inst # <<>>
        /\ OpName(last'.inst[1]) = "syscall"
        /\ regs[2] = 4
        /\ NoZeroInWindow(regs[4], memory) )
      => /\ last'.kind = "commit"
         /\ error' = NoError
         /\ Len(output') - Len(output) <= 1000
         /\ SubSeq(output', 1, Len(output)) = output
         /\ pc' = NumAdd(pc, Num(4))
         /\ regs' = regs
         /\ memory' = memory ]_vars

\* print_string has just run on the unterminated buffer
C8_PrintedUnterminated ==
  /\ SteppedOn({"syscall"})
  /\ last.src = 7
  /\ regs[2] = 4
  /\ NoZeroInWindow(regs[4], memory)
  /\ Len(output) = 1000

\* a source with a .word directive whose literal is missing or not numeric
HasBadWord(sourceCode) ==
  \E i \in 1..Len(sourceCode) :
    /\ sourceCode[i].toks # <<>>
    /\ sourceCode[i].toks[1] = <<".word">>
    /\ parseInt(Arg(sourceCode[i].toks, 1)).nan

\* C10: assembling a source whose .data section has a .word with a missing
\* or non-numeric literal ends with an assembler error and installs
\* nothing of that source.
C10_BadWordAborts ==
  (last.op = "assemble" /\ HasBadWord(Sources[last.src])) =>
    /\ error = AssemblerError
    /\ instructions # Parsed[last.src].newInstructions

\* a source with a malformed .word has just been assembled
C10_BadWordAssembled == last.op = "assemble" /\ HasBadWord(Sources[last.src])

\* C11: while the error is set, a call of step (the button's or the
\* timer's) leaves registers, PC, memory, output, error and the loaded
\* program unchanged, and the error only changes by reset or assemble.
C11_StepBlockedByError ==
  [][ /\ ( (error # NoError /\ last'.op \in {"step", "timer"}) =>
             /\ regs' = regs
             /\ pc' = pc
             /\ memory' = memory
             /\ output' = output
             /\ error' = error
             /\ instructions' = instructions
             /\ labelMap' = labelMap
             /\ last'.inst = <<>> )
      /\ ( (error # NoError /\ error' # error) =>
             last'.op \in {"reset", "assemble"} ) ]_vars

\* step was called while a runtime error was set, after instructions ran
C11_SteppedInErrorState ==
  /\ last.op = "step"
  /\ last.kind = "blocked"
  /\ error.kind = "Runtime"
  /\ regs[8] = -2

\* C12: a step is atomic.  A step that raises a runtime fault leaves
\* registers, memory, PC and output exactly as they were: only the error is
\* set (it reports the PC) and continuous-run is turned off.  A step that
\* does not fault commits the register, memory, PC and output changes of
\* its instruction together and sets no error.
C12_StepIsAtomic ==
  [][ (last'.op \in {"step", "timer"} /\ last'.inst # <<>>) =>
        /\ last'.kind \in {"fault", "commit"}
        /\ (last'.kind = "fault" =>
              /\ regs' = regs
              /\ memory' = memory
              /\ pc' = pc
              /\ output' = output
              /\ error' = RuntimeError(pc)
              /\ ~isRunning'
              /\ timer' = <<>>)
        /\ (last'.kind = "commit" =>
              LET o == Exec(last'.inst[1], Current)
              IN  /\ regs' = o.regs
                  /\ memory' = o.memory
                  /\ pc' = o.pc
                  /\ output' = output \o o.out
                  /\ error' = NoError) ]_vars

\* a store whose memory operand does not decode has just faulted, after
\* instructions that changed registers and memory
C12_StoreFaulted ==
  /\ SteppedOn({"sw"})
  /\ last.kind = "fault"
  /\ Arg(LastInst.args, 1) = <<"(", "$sp", ")">>
  /\ error = RuntimeError(LastInst.pc)
  /\ pc = LastInst.pc
  /\ regs[8] = -2
  /\ DOMAIN memory # {}

\* the mnemonics whose operands 0 and 1 (and 2, for those of RegRegRegOps)
\* are registers
RegRegRegOps == {"add", "addu", "sub", "subu", "mul", "and", "or", "xor", "slt"}
RegRegImmOps == {"addi", "addiu", "sll", "srl", "slti"}
\* an operand that is present and is not the name of a register
NotARegister(str) == str # Undefined /\ ~IsRegName(str)
\* an instruction of the arithmetic group with a register operand that names
\* no register, or an immediate or label operand that is neither a label
\* nor an integer literal
MalformedOperand(inst, lm) ==
  LET op == OpName(inst)
      a(k) == Arg(inst.args, k)
  IN  \/ /\ op \in RegRegRegOps \cup RegRegImmOps \cup {"lui", "li", "la", "move"}
         /\ NotARegister(a(0))
      \/ /\ op \in RegRegRegOps \cup RegRegImmOps \cup {"move"}
         /\ NotARegister(a(1))
      \/ /\ op \in RegRegRegOps
         /\ NotARegister(a(2))
      \/ /\ op \in RegRegImmOps
         /\ a(2) # Undefined /\ parseInt(a(2)).nan
      \/ /\ op \in {"lui", "li"}
         /\ a(1) # Undefined /\ parseInt(a(1)).nan
      \/ /\ op = "la"
         /\ UnresolvedName(a(1), lm)

\* C13: a step on an instruction with a register operand that is no known
\* register name, or with a label/immediate operand that is neither a label
\* nor an integer literal, ends with the error set to a RuntimeFault for
\* that PC and is no ordinary committed step.
C13_MalformedOperandFaults ==
  (Stepped /\ last.inst # <<>> /\ MalformedOperand(LastInst, labelMap)) =>
    /\ last.kind = "fault"
    /\ error = RuntimeError(LastInst.pc)

\* add $t0, $bogus, $t1 has just been executed
C13_BogusRegisterExecuted ==
  /\ SteppedOn({"add"})
  /\ LastInst.args = Toks(<<"$t0", "$bogus", "$t1">>)
  /\ last.kind = "commit"
  /\ error = NoError
  /\ pc = NumAdd(LastInst.pc, Num(4))

\* C14: in every state after an assemble, whatever steps were taken, the
\* program counter is an integer multiple of 4.
C14_PcIsMultipleOf4 ==
  last.op # "init" => (~pc.nan /\ pc.lo % 4 = 0)

\* jr has just jumped to the register value 0x00400002
C14_JumpedToMisaligned ==
  /\ SteppedOn({"jr"})
  /\ last.kind = "commit"
  /\ error = NoError
  /\ regs[8] = 4194306
  /\ pc = Num(4194306)

\* C15: the step that executes the exit syscall turns continuous-run off,
\* clears the pending timer and leaves the PC at 0; while the PC is 0 a
\* step (the button's, or the timer's after Run was turned on again)
\* fetches no instruction and leaves registers, memory, output and PC
\* unchanged with continuous-run off; and the PC only leaves 0 by reset or
\* assemble.
C15_NothingRunsAfterExit ==
  [][ /\ ( ( /\ last'.op \in {"step", "timer"}
             /\ last'.inst # <<>>
             /\ OpName(last'.inst[1]) = "syscall"
             /\ regs[2] = 10 ) =>
             /\ pc' = Num(ExitPc)
             /\ ~isRunning'
             /\ timer' = <<>>
             /\ error' = NoError )
      /\ ( (pc = Num(ExitPc) /\ last'.op \in {"step", "timer"}) =>
             /\ last'.inst = <<>>
             /\ regs' = regs
             /\ memory' = memory
             /\ output' = output
             /\ pc' = pc
             /\ ~isRunning'
             /\ timer' = <<>> )
      /\ ( (pc = Num(ExitPc) /\ pc' # pc) => last'.op \in {"reset", "assemble"} )
    ]_vars

\* after the exit syscall of the built-in program Run was turned on again
\* and the timer's step found nothing to execute
C15_TimerStepAfterExit ==
  /\ last.op = "timer"
  /\ last.kind = "noinst"
  /\ last.src = 1
  /\ pc = Num(ExitPc)
  /\ regs[2] = 10
  /\ ~isRunning

\* the step executed the exit syscall
ExecutesExit(inst, r) == OpName(inst) = "syscall" /\ r[2] = 10

\* C16: the run loop stops on a runtime fault, on the exit syscall, on a PC
\* without an instruction and on a pause request: after a timer-driven step
\* with one of these outcomes, and after a pause, isRunning is false and no
\* timer is pending.  A timer is only pending, and a timer-driven step only
\* happens, while isRunning is true, and isRunning only becomes true by a
\* Run request; otherwise a timer-driven step that commits sets the next
\* timer.
C16_RunLoopStops ==
  [][ /\ ( last'.op = "timer" =>
             /\ isRunning
             /\ IF \/ last'.kind \in {"fault", "noinst"}
                   \/ /\ last'.inst # <<>>
                      /\ ExecutesExit(last'.inst[1], regs)
                THEN ~isRunning' /\ timer' = <<>>
                ELSE last'.kind = "commit" /\ isRunning' /\ timer' # <<>> )
      /\ ( (last'.op = "run" /\ isRunning) =>
             /\ ~isRunning'
             /\ timer' = <<>>
             /\ UNCHANGED << regs, pc, memory, output, error >> )
      /\ ( timer' # <<>> => isRunning' )
      /\ ( (~isRunning /\ isRunning') => last'.op = "run" ) ]_vars

\* a timer-driven step has just faulted and stopped the run loop
C16_RunLoopFaulted ==
  /\ last.op = "timer"
  /\ last.kind = "fault"
  /\ last.ran
  /\ ~isRunning
  /\ timer = <<>>
  /\ error.kind = "Runtime"

\* C17: a step on an instruction whose mnemonic is not in the dispatch
\* table sets no error, leaves every register, all memory and the output
\* unchanged, and sets PC to PC + 4.
C17_UnknownOpIsNoOp ==
  [][ ( /\ last'.op \in {"step", "timer"}
        /\ last'.inst # <<>>
        /\ OpName(last'.inst[1]) \notin KnownOps ) =>
        /\ last'.kind = "commit"
        /\ error' = NoError
        /\ regs' = regs
        /\ memory' = memory
        /\ output' = output
        /\ pc' = NumAdd(pc, Num(4))
        /\ isRunning' = isRunning ]_vars

\* the unknown mnemonic frobnicate has just been stepped over, with
\* registers and memory that earlier instructions changed
C17_UnknownOpExecuted ==
  /\ SteppedOn({"frobnicate"})
  /\ last.kind = "commit"
  /\ regs[8] = -2
  /\ DOMAIN memory # {}
  /\ pc = NumAdd(LastInst.pc, Num(4))

\* two Numbers that denote the same address modulo 2^32
SameAddress(x, y) == ~x.nan /\ ~y.nan /\ MultipleOf2p32(NumSub(x, y))

\* C18: address arithmetic wraps modulo 2^32: after a lw through a base
\* register and offset whose sum is A, byte i of the loaded word is the
\* byte memory holds at any address equal to A + i modulo 2^32, whatever
\* base and offset the store that wrote it went through.
C18_AddressesWrap ==
  ( /\ SteppedOn({"lw"})
    /\ last.kind = "commit"
    /\ Len(Arg(LastInst.args, 1)) = 4
    /\ Arg(LastInst.args, 0) # <<Arg(LastInst.args, 1)[3]>> ) =>
    LET A == EffAddr(LastInst, regs)
        d == RegMapGet(Arg(LastInst.args, 0)[1])
    IN  \A i \in 0..3 : \A K \in DOMAIN memory :
          SameAddress(K, NumAdd(A, Num(i))) =>
            BigEndian(regs[d])[i + 1] = memory[K]

\* the word 321 was stored at $sp + 4 = 0x80000000 and then loaded through
\* the base register -2^31 with offset 0
C18_LoadedThroughOtherPair ==
  /\ SteppedOn({"lw"})
  /\ last.kind = "commit"
  /\ LastInst.args = <<<<"$t2">>, MemOp("0", "$t1")>>
  /\ regs[9] = MinInt32
  /\ regs[8] = 321
  /\ getMemWord(MkNum(32768, 0), memory) = 321
  /\ regs[10] = 0

\* C19: a print_char syscall ($v0 = 11) appends exactly one character, whose
\* code is the low byte of $a0 ($a0 mod 256), for any value of $a0.
C19_PrintCharLowByte ==
  [][ ( /\ last'.op \in {"step", "timer"}
        /\ last'.inst # <<>>
        /\ OpName(last'.inst[1]) = "syscall"
        /\ regs[2] = 11 ) =>
        /\ last'.kind = "commit"
        /\ output' = output \o PrintCharLowByte(regs[4]) ]_vars

\* print_char has just run with $a0 = 321
C19_PrintedChar321 ==
  /\ SteppedOn({"syscall"})
  /\ last.kind = "commit"
  /\ regs[2] = 11
  /\ regs[4] = 321
  /\ output = <<65, 321>>

\* a line that switches the section
IsSectionLine(l) == l.label = <<>> /\ l.toks \in {<<<<".data">>>>, <<<<".text">>>>}
\* the section in force when line n of a source is read
SectionAt(src, n) ==
  LET dirs == {j \in 1..(n - 1) : IsSectionLine(src[j])}
  IN  IF dirs = {} THEN ".text"
      ELSE src[CHOOSE j \in dirs : \A k \in dirs : k <= j].toks[1][1]
\* the lines of a source that declare an instruction
InstLines(src) ==
  {n \in 1..Len(src) :
     SectionAt(src, n) = ".text" /\ src[n].toks # <<>> /\ ~IsSectionLine(src[n])}
\* the first instruction line at or after line n (0 if there is none)
FirstInstFrom(src, n) ==
  LET f == {m \in InstLines(src) : m >= n}
  IN  IF f = {} THEN 0 ELSE CHOOSE m \in f : \A k \in f : m <= k
\* the label of line n is defined on no other line
DefinedOnce(src, n) ==
  \A m \in 1..Len(src) : src[m].label = src[n].label => m = n

\* the instruction lines of each source, in increasing order
InstLineSeq ==
  [k \in 1..Len(Sources) |->
     LET S == InstLines(Sources[k])
     IN  [i \in 1..Cardinality(S) |->
            CHOOSE m \in S : Cardinality({x \in S : x < m}) = i - 1]]
\* for each source, the labels defined once in .text that an instruction
\* follows, each with the line of the first instruction at or after it
TextLabels ==
  [k \in 1..Len(Sources) |->
     LET src == Sources[k]
     IN  { <<src[n].label[1], FirstInstFrom(src, n)>> :
             n \in {m \in 1..Len(src) :
                      /\ src[m].label # <<>>
                      /\ SectionAt(src, m) = ".text"
                      /\ DefinedOnce(src, m)
                      /\ FirstInstFrom(src, m) # 0} }]

\* the program installed from source k: instruction i (from 0, in text
\* order) is at TEXT_START + 4 i, and every label defined once in .text is
\* the address of the first instruction at or after its line
LoadedInTextOrder(k, ins, lm) ==
  /\ Len(ins) = Len(InstLineSeq[k])
  /\ \A i \in 1..Len(ins) :
       /\ ins[i].pc = Num(TEXT_START + 4 * (i - 1))
       /\ ins[i].sourceLine = InstLineSeq[k][i]
  /\ \A t \in TextLabels[k] :
       /\ t[1] \in DOMAIN lm
       /\ \E i \in 1..Len(ins) :
            /\ ins[i].sourceLine = t[2]
            /\ lm[t[1]] = ins[i].pc

\* the operand of a beq, bne, j or jal that names its target, if the jump
\* is taken on registers r (<<>> otherwise)
TakenTarget(inst, r) ==
  LET G(k) == getRegVal(AsIndex(parseReg(Arg(inst.args, k))), r)
  IN  IF OpName(inst) \in {"j", "jal"} THEN Arg(inst.args, 0)
      ELSE IF OpName(inst) = "beq" /\ G(0) = G(1) THEN Arg(inst.args, 2)
      ELSE IF OpName(inst) = "bne" /\ G(0) # G(1) THEN Arg(inst.args, 2)
      ELSE <<>>

\* C20: after an assemble the i-th instruction in text order has address
\* TEXT_START + 4 i, whatever .data sections, labels and blank lines are
\* interleaved, and a label defined in .text is the address of the first
\* instruction that follows its definition; a taken beq/bne and a j/jal to
\* a label set the PC to that label's address, for forward and backward
\* references alike.  (The program and the label table only change by an
\* assemble.)
C20_LabelsResolve ==
  [][ /\ ( last'.op = "assemble" =>
             LoadedInTextOrder(last'.src, instructions', labelMap') )
      /\ ( last'.op # "assemble" =>
             /\ instructions' = instructions
             /\ labelMap' = labelMap
             /\ last'.src = last.src )
      /\ ( ( /\ last'.op \in {"step", "timer"}
             /\ last'.inst # <<>>
             /\ Len(TakenTarget(last'.inst[1], regs)) = 1
             /\ TakenTarget(last'.inst[1], regs)[1] \in DOMAIN labelMap ) =>
             /\ last'.kind = "commit"
             /\ pc' = labelMap[TakenTarget(last'.inst[1], regs)[1]] ) ]_vars

\* in the source with interleaved sections, the bne has just jumped back to
\* the label body, defined before a .data section and two lines above the
\* instruction it names
C20_JumpedBackToLabel ==
  /\ SteppedOn({"bne"})
  /\ last.src = 14
  /\ last.kind = "commit"
  /\ LastInst.pc = Num(TEXT_START + 16)
  /\ pc = Num(TEXT_START + 12)
  /\ pc = labelMap["body"]
  /\ instructions[4].pc = pc
  /\ instructions[4].sourceLine = 15

\* the instruction is a control transfer on registers r: j, jal, jr, or a
\* beq/bne whose condition holds
ControlTransfer(inst, r) ==
  LET G(k) == getRegVal(AsIndex(parseReg(Arg(inst.args, k))), r)
  IN  \/ OpName(inst) \in {"j", "jal", "jr"}
      \/ OpName(inst) = "beq" /\ G(0) = G(1)
      \/ OpName(inst) = "bne" /\ G(0) # G(1)

\* C21: every step that executes an instruction and does not fault sets PC
\* to PC + 4 unless the instruction is a control transfer (a taken beq/bne,
\* j, jal or jr): every syscall, every not-taken branch and every ALU or
\* memory instruction leaves PC = old PC + 4.
C21_DefaultPcUpdate ==
  [][ ( /\ last'.op \in {"step", "timer"}
        /\ last'.inst # <<>>
        /\ last'.kind = "commit"
        /\ ~ControlTransfer(last'.inst[1], regs) ) =>
        pc' = NumAdd(pc, Num(4)) ]_vars

\* the exit syscall at the end of the built-in program has just executed
C21_ExitSyscallExecuted ==
  /\ SteppedOn({"syscall"})
  /\ last.kind = "commit"
  /\ last.src = 1
  /\ regs[2] = 10
  /\ LastInst.pc = Num(TEXT_START + 116)
  /\ pc = Num(ExitPc)

\* C22: under the controls of the application no reachable state has
\* isRunning true together with an error: a transition that sets an error
\* turns continuous-run off, and continuous-run is not turned on while an
\* error is set.
C22_NeverRunningWithError ==
  [][ /\ ~(isRunning' /\ error' # NoError)
      /\ ( (error = NoError /\ error' # NoError) =>
             /\ ~isRunning'
             /\ timer' = <<>>
             /\ last'.kind = "fault" )
      /\ ( (~isRunning /\ isRunning') => (error = NoError /\ error' = NoError) )
    ]_vars

\* a fault during continuous-run has set the error and stopped the run, in
\* the program whose store does not decode
C22_FaultedDuringRun ==
  /\ last.op = "timer"
  /\ last.kind = "fault"
  /\ last.ran
  /\ last.src = 9
  /\ error = RuntimeError(Num(TEXT_START + 28))
  /\ pc = Num(TEXT_START + 28)
  /\ ~isRunning

\* the labels of a label table that are data addresses
DataLabels(lm) == {l \in DOMAIN lm : NumLess(Num(DATA_START - 1), lm[l])}

\* C23: reset leaves the loaded program untouched (instruction list, label
\* table and source map are those of the last assemble) and does not
\* restore the data image: after reset memory is empty, so that the state
\* differs from the state right after that assemble exactly in memory when
\* the program has data, and every data label address reads 0; a step of
\* the still-loaded program on the empty memory loads 0 with lw and prints
\* nothing with print_string.
C23_ResetKeepsProgramNotData ==
  [][ /\ ( last'.op = "reset" =>
             /\ instructions' = instructions
             /\ labelMap' = labelMap
             /\ sourceMap' = sourceMap
             /\ instructions' = Parsed[last'.src].newInstructions
             /\ labelMap' = Parsed[last'.src].newLabelMap
             /\ sourceMap' = Parsed[last'.src].newSourceMap
             /\ regs' = FreshRegs
             /\ pc' = Num(TEXT_START)
             /\ output' = <<>>
             /\ ~isRunning'
             /\ error' = NoError
             /\ memory' = EmptyMem
             /\ ( DOMAIN Parsed[last'.src].newDataSegment # {} =>
                    memory' # Parsed[last'.src].newDataSegment )
             /\ \A l \in DataLabels(labelMap') :
                  /\ getMemByte(labelMap'[l], memory') = 0
                  /\ getMemWord(labelMap'[l], memory') = 0 )
      /\ ( ( /\ last'.op \in {"step", "timer"}
             /\ last'.inst # <<>>
             /\ last'.kind = "commit"
             /\ memory = EmptyMem ) =>
             /\ ( OpName(last'.inst[1]) = "lw" /\ IsRegName(Arg(last'.inst[1].args, 0)) =>
                    regs'[RegMapGet(Arg(last'.inst[1].args, 0)[1])] = 0 )
             /\ ( OpName(last'.inst[1]) = "syscall" /\ regs[2] = 4 =>
                    output' = output ) ) ]_vars

\* after a reset of the built-in program its first print_string, at the
\* data label msg_start, has printed nothing
C23_PrintedNothingAfterReset ==
  /\ SteppedOn({"syscall"})
  /\ last.src = 1
  /\ last.kind = "commit"
  /\ regs[2] = 4
  /\ regs[4] = DATA_START
  /\ labelMap["msg_start"] = Num(DATA_START)
  /\ memory = EmptyMem
  /\ output = <<>>
  /\ pc = Num(TEXT_START + 24)

====
